---- MODULE Spec2Model ----
(***************************************************************************)
(* Model of the EEPROM programmer sketches of the repository: the three    *)
(* hardware revisions control-rom.ino, unnamed/part_000, unnamed/part_001. *)
(* Each sketch erases the chip, programs the microcode of a SAP-1 style    *)
(* control unit through writeInstruction/writeEEPROM and dumps the first   *)
(* 256 bytes.  The C type int is the 16 bit int of the AVR boards the      *)
(* sketches are written for; values are kept as unsigned 16 bit patterns.  *)
(***************************************************************************)
EXTENDS Integers, Sequences, FiniteSets, TLC

VARIABLES
    variant,     \* which sketch is running
    romSelect,   \* the value of #define ROM_SELECT the sketch was built with
    mem,         \* the EEPROM cells: cell a (chip address A0..A10) is mem[a + 1]
    pc,          \* position of setup(): "erase", "program", "read", "done"
    address,     \* loop variable of the erase loop of setup()
    call,        \* index of the writeInstruction call setup() is executing
    t,           \* loop variable t of writeInstruction
    base,        \* loop variable base of printContents
    offset,      \* loop variable offset of printContents
    tick,        \* number of readEEPROM/writeEEPROM calls made so far
    nErase,      \* number of erase writes made
    eraseMax,    \* largest address passed to writeEEPROM by the erase loop
    lastEraseTick, \* tick of the latest erase write
    progLog,     \* the programming writes made, in order
    readSet,     \* chip addresses read by printContents
    firstReadTick, \* tick of the first readEEPROM call (0: none yet)
    dump,        \* bytes returned by readEEPROM, in order
    calls,       \* the address computations applied (codec specification)
    lastSet,     \* the latest setAddress call of the session: <<>> or one record
    op,          \* pin level: the driver call executing, its arguments, and
                 \*   the content of the addressed cell when it was made
    step,        \* pin level: index of the next library call of its body
    pin,         \* pin level: loop variable pin (0: not inside a loop)
    dataByte,    \* pin level: the variable data of writeEEPROM / readEEPROM
    mode,        \* pin level: pinMode of each Arduino pin
    port,        \* pin level: output level written to each Arduino pin
    shiftReg,    \* pin level: the 16 bits shifted into the two shift registers
    latched,     \* pin level: the 16 bits on the shift register outputs
    settling,    \* pin level: a byte write was pulsed and has not settled
    done         \* pin level: the driver calls completed, in order

\* the pin level state (the chip image mem is shared with the session)
busVars == <<op, step, pin, dataByte, mode, port, shiftReg, latched, settling, done>>

\* the session and codec state
sessionVars == <<variant, romSelect, pc, address, call, t, base, offset, tick,
                 nErase, eraseMax, lastEraseTick, progLog, readSet,
                 firstReadTick, dump, calls, lastSet>>

vars == <<variant, romSelect, mem, pc, address, call, t, base, offset, tick,
          nErase, eraseMax, lastEraseTick, progLog, readSet, firstReadTick,
          dump, calls, lastSet, op, step, pin, dataByte, mode, port,
          shiftReg,
          latched, settling, done>>

----------------------------------------------------------------------------
(* Bounds of the model *)

\* prior chip images tried: image seeds 0..MaxImage
MaxImage == 1

\* writeInstruction calls with a full byte as instruction that are recorded
MaxWide == 1

\* driver calls made after setup's pin initialisation (pin level)
MaxOps == 2
\* address computations (writeInstruction calls) applied in the codec specification
MaxCalls == 2

----------------------------------------------------------------------------
(* Bit operations on unsigned patterns *)

RECURSIVE BitAnd(_, _)
BitAnd(a, b) ==
    IF a = 0 \/ b = 0 THEN 0
    ELSE (a % 2) * (b % 2) + 2 * BitAnd(a \div 2, b \div 2)

RECURSIVE BitOr(_, _)
BitOr(a, b) ==
    IF a = 0 THEN b
    ELSE IF b = 0 THEN a
    ELSE (IF a % 2 = 1 \/ b % 2 = 1 THEN 1 ELSE 0) + 2 * BitOr(a \div 2, b \div 2)

RECURSIVE BitXor(_, _)
BitXor(a, b) ==
    IF a = 0 THEN b
    ELSE IF b = 0 THEN a
    ELSE ((a + b) % 2) + 2 * BitXor(a \div 2, b \div 2)

RECURSIVE Pow2(_)
Pow2(n) == IF n = 0 THEN 1 ELSE 2 * Pow2(n - 1)

\* x >> n and x << n on a nonnegative int
ShiftRight(x, n) == x \div Pow2(n)
ShiftLeft(x, n) == (x * Pow2(n)) % 65536

\* ~x on a 16 bit int
Not16(x) == 65535 - x

\* number of 1 bits
RECURSIVE PopCount(_)
PopCount(x) == IF x = 0 THEN 0 ELSE (x % 2) + PopCount(x \div 2)

----------------------------------------------------------------------------
(* The sketches *)

Variants == {"control_rom", "part_000", "part_001"}

\* ROM_SELECT values a sketch can be built with; part_001 has no selector and
\* carries the values of ROM 1
RomSelects(v) == IF v = "part_001" THEN {1} ELSE {1, 2}

\* the chip has address lines A0..A10
ChipSize == 2048

----------------------------------------------------------------------------
(* setAddress: the 16 bit word latched into the two shift registers *)

OutputEnableBit(outputEnable) == IF outputEnable THEN 0 ELSE 128

\* setAddress shifting out address in place of address >> 8
setAddressHighNoShift(addr, outputEnable) ==
    BitOr(addr, OutputEnableBit(outputEnable)) % 256

\* shiftOut takes a byte: the int argument is truncated to its low 8 bits
setAddressHigh(addr, outputEnable) ==
    BitOr(ShiftRight(addr, 8), OutputEnableBit(outputEnable)) % 256

setAddressLow(addr) == addr % 256

setAddress(addr, outputEnable) ==
    setAddressHigh(addr, outputEnable) * 256 + setAddressLow(addr)

\* the chip's address lines A0..A10 are the low 11 bits of the latched word
Cell(word) == word % ChipSize

\* the cell a writeEEPROM(addr, ..) call writes, and a readEEPROM(addr) reads
WriteCell(addr) == Cell(setAddress(addr, FALSE))
ReadCell(addr) == Cell(setAddress(addr, TRUE))

\* the image of the chip is the sequence of its cells: cell a is m[a + 1]
CellValue(m, a) == m[a + 1]

\* writeEEPROM: the byte cycle replaces the content of the addressed cell
writeEEPROM(m, addr, data) == [m EXCEPT ![WriteCell(addr) + 1] = data % 256]

\* readEEPROM: the byte sampled from the data pins
readEEPROM(m, addr) == CellValue(m, ReadCell(addr))

----------------------------------------------------------------------------
(* writeInstruction: the address computed for step t of a call *)

\* control-rom.ino with the instruction shifted by 5 in place of 6
AddressControlRomShift5(instruction, t_start, tt) ==
    BitOr(ShiftLeft(instruction % 256, 5),
          BitAnd(Not16(ShiftRight(32, tt + t_start)), 63))

\* control-rom.ino: instruction in bits 6.., inverted ring counter in bits 0..5
AddressControlRom(instruction, t_start, tt) ==
    LET i_address == ShiftLeft(instruction % 256, 6)
        t_address == BitAnd(Not16(ShiftRight(32, tt + t_start)), 63)
    IN  BitOr(i_address, t_address)

\* part_000 with the line instruction &= 0x00F left out
AddressPart000NoMask(instruction, t_start, tt) ==
    BitOr(BitAnd(Not16(ShiftRight(128, t_start + tt)), 1008), instruction % 256)

\* part_000: inverted ring counter masked with 0x3F0, instruction in bits 0..3
AddressPart000(instruction, t_start, tt) ==
    LET timing == BitAnd(Not16(ShiftRight(128, t_start + tt)), 1008)
        masked == BitAnd(instruction % 256, 15)
    IN  BitOr(timing, masked)

\* part_001: ring counter bit (not inverted) plus the instruction
AddressPart001(instruction, t_start, tt) ==
    (ShiftRight(128, t_start + tt) + instruction) % 65536

Address(v, instruction, t_start, tt) ==
    CASE v = "control_rom" -> AddressControlRom(instruction, t_start, tt)
      [] v = "part_000"    -> AddressPart000(instruction, t_start, tt)
      [] v = "part_001"    -> AddressPart001(instruction, t_start, tt)

\* the bits of an address that carry the ring counter signal
TimingMask(v) ==
    CASE v = "control_rom" -> 63      \* t_address &= 0x3F
      [] v = "part_000"    -> 1008    \* address &= 0x3F0
      [] v = "part_001"    -> 252     \* 0x80 >> 0 .. 0x80 >> 5

\* the lowest bit of the timing field
TimingShift(v) ==
    CASE v = "control_rom" -> 0
      [] v = "part_000"    -> 4
      [] v = "part_001"    -> 2

\* the bits of an address that carry the 4 bit opcode
OpcodeMask(v) ==
    CASE v = "control_rom" -> 960     \* instruction << 6, opcodes 0..15
      [] v = "part_000"    -> 15      \* instruction &= 0x00F
      [] v = "part_001"    -> 15      \* + instruction, opcodes 0..15

\* width of the address layout: the masks of writeInstruction where the code
\* masks (part_000: 0x3F0 | 0x00F), the pins the header comment lists elsewhere
AddressBits(v) ==
    CASE v = "control_rom" -> 11      \* pins 10-6 instruction, 5-0 ring counter
      [] v = "part_000"    -> 10      \* 0x3F0 | 0x00F
      [] v = "part_001"    -> 11      \* pins 0-5 ring counter, 6-10 instruction

Capacity(v) == Pow2(AddressBits(v))

----------------------------------------------------------------------------
(* The control signals and the microcode tables *)

ROM_1_SELECT(rs) == IF rs = 1 THEN 1 ELSE 0
ROM_2_SELECT(rs) == IF rs = 2 THEN 1 ELSE 0

\* control-rom.ino with AO defined without its bank selector
SignalsControlRomNoSelect(rs) ==
    [HLT |-> 1 * ROM_2_SELECT(rs),  MI |-> 2 * ROM_2_SELECT(rs),
     RI  |-> 4 * ROM_2_SELECT(rs),  RO |-> 8 * ROM_2_SELECT(rs),
     IO  |-> 16 * ROM_2_SELECT(rs), II |-> 32 * ROM_2_SELECT(rs),
     AI  |-> 64 * ROM_2_SELECT(rs), AO |-> 128,
     EO  |-> 1 * ROM_1_SELECT(rs),  SU |-> 2 * ROM_1_SELECT(rs),
     BI  |-> 4 * ROM_1_SELECT(rs),  OI |-> 8 * ROM_1_SELECT(rs),
     CE  |-> 16 * ROM_1_SELECT(rs), CO |-> 32 * ROM_1_SELECT(rs),
     J   |-> 64 * ROM_1_SELECT(rs)]

SignalsControlRom(rs) ==
    [HLT |-> 1 * ROM_2_SELECT(rs),  MI |-> 2 * ROM_2_SELECT(rs),
     RI  |-> 4 * ROM_2_SELECT(rs),  RO |-> 8 * ROM_2_SELECT(rs),
     IO  |-> 16 * ROM_2_SELECT(rs), II |-> 32 * ROM_2_SELECT(rs),
     AI  |-> 64 * ROM_2_SELECT(rs), AO |-> 128 * ROM_1_SELECT(rs),
     EO  |-> 1 * ROM_1_SELECT(rs),  SU |-> 2 * ROM_1_SELECT(rs),
     BI  |-> 4 * ROM_1_SELECT(rs),  OI |-> 8 * ROM_1_SELECT(rs),
     CE  |-> 16 * ROM_1_SELECT(rs), CO |-> 32 * ROM_1_SELECT(rs),
     J   |-> 64 * ROM_1_SELECT(rs)]

SignalsPart000(rs) ==
    [J   |-> 1 * ROM_1_SELECT(rs),  CO |-> 2 * ROM_1_SELECT(rs),
     CE  |-> 4 * ROM_1_SELECT(rs),  OI |-> 8 * ROM_1_SELECT(rs),
     BI  |-> 16 * ROM_1_SELECT(rs), SU |-> 32 * ROM_1_SELECT(rs),
     EO  |-> 64 * ROM_1_SELECT(rs), AO |-> 128 * ROM_1_SELECT(rs),
     AI  |-> 1 * ROM_2_SELECT(rs),  II |-> 2 * ROM_2_SELECT(rs),
     IO  |-> 4 * ROM_2_SELECT(rs),  RO |-> 8 * ROM_2_SELECT(rs),
     RI  |-> 16 * ROM_2_SELECT(rs), MI |-> 32 * ROM_2_SELECT(rs),
     HLT |-> 64 * ROM_2_SELECT(rs)]

SignalsPart001 ==
    [J |-> 1, CO |-> 2, CE |-> 4, OI |-> 8, BI |-> 16, SU |-> 32, EO |-> 64,
     AO |-> 128, AI |-> 0, II |-> 0, IO |-> 0, RO |-> 0, RI |-> 0, MI |-> 0,
     HLT |-> 0]

Signals(v, rs) ==
    CASE v = "control_rom" -> SignalsControlRom(rs)
      [] v = "part_000"    -> SignalsPart000(rs)
      [] v = "part_001"    -> SignalsPart001

NOOP == 0

\* control-rom.ino and part_000 combine signals with |, part_001 with + (byte)
Combine(v, a, b) == IF v = "part_001" THEN (a + b) % 256 ELSE BitOr(a, b)

FETCH(v, rs) ==
    LET s == Signals(v, rs)
    IN  <<Combine(v, s.CO, s.MI), Combine(v, s.RO, s.II), s.CE>>

\* LDA with IO left out of its first step
LDADropIO(v, rs) ==
    LET s == Signals(v, rs)
    IN  <<s.MI, Combine(v, s.RO, s.AI), NOOP>>

LDA(v, rs) ==
    LET s == Signals(v, rs)
    IN  <<Combine(v, s.IO, s.MI), Combine(v, s.RO, s.AI), NOOP>>

ADD(v, rs) ==
    LET s == Signals(v, rs)
    IN  <<Combine(v, s.IO, s.MI), Combine(v, s.RO, s.BI), Combine(v, s.EO, s.AI)>>

SUB(v, rs) ==
    LET s == Signals(v, rs)
    IN  <<Combine(v, s.IO, s.MI), Combine(v, s.RO, s.BI),
          Combine(v, Combine(v, s.EO, s.AI), s.SU)>>

OUT(v, rs) ==
    LET s == Signals(v, rs)
    IN  <<Combine(v, s.AO, s.OI), NOOP, NOOP>>

HALT(v, rs) ==
    LET s == Signals(v, rs)
    IN  <<s.HLT, NOOP, NOOP>>

\* the extended programs, defined by control-rom.ino only
LDI(v, rs) ==
    LET s == Signals(v, rs)
    IN  <<Combine(v, s.IO, s.AI), NOOP, NOOP>>

STA(v, rs) ==
    LET s == Signals(v, rs)
    IN  <<Combine(v, s.IO, s.MI), Combine(v, s.AO, s.RI), NOOP>>

INC(v, rs) ==
    LET s == Signals(v, rs)
    IN  <<Combine(v, s.IO, s.BI), Combine(v, s.EO, s.AI), NOOP>>

DEC(v, rs) ==
    LET s == Signals(v, rs)
    IN  <<Combine(v, s.IO, s.BI), Combine(v, Combine(v, s.EO, s.AI), s.SU), NOOP>>

JMP(v, rs) ==
    LET s == Signals(v, rs)
    IN  <<Combine(v, s.IO, s.J), NOOP, NOOP>>

NOP(v, rs) == <<NOOP, NOOP, NOOP>>

\* every program table a sketch defines
Programs(v, rs) ==
    {FETCH(v, rs), LDA(v, rs), ADD(v, rs), SUB(v, rs), OUT(v, rs), HALT(v, rs)}
    \cup (IF v = "control_rom"
          THEN {LDI(v, rs), STA(v, rs), INC(v, rs), DEC(v, rs), JMP(v, rs),
                NOP(v, rs)}
          ELSE {})

SignalNames ==
    {"HLT", "MI", "RI", "RO", "IO", "II", "AI", "AO",
     "EO", "SU", "BI", "OI", "CE", "CO", "J"}

\* the bank whose selector multiplies the signal's bit in the source
BankOf(v, name) ==
    CASE v = "control_rom" ->
            (IF name \in {"HLT", "MI", "RI", "RO", "IO", "II", "AI"} THEN 2 ELSE 1)
      [] v = "part_000" ->
            (IF name \in {"AI", "II", "IO", "RO", "RI", "MI", "HLT"} THEN 2 ELSE 1)

\* the table a writeInstruction call of setup() passes, by name
Ops(v, rs, name) ==
    CASE name = "FETCH" -> FETCH(v, rs)
      [] name = "LDA"   -> LDA(v, rs)
      [] name = "ADD"   -> ADD(v, rs)
      [] name = "SUB"   -> SUB(v, rs)
      [] name = "OUT"   -> OUT(v, rs)
      [] name = "HALT"  -> HALT(v, rs)

----------------------------------------------------------------------------
(* setup(): the programming session *)

\* #define ROM_SELECT of the sources
ROM_SELECT == 1

\* the erase loop written with < in place of <=
EraseLastExclusive == 2047 - 1

\* last address of the erase loop: for (address = 0; address <= 2047; ..)
EraseLast == 2047

\* printContents: for (base = 0; base <= 255; base += 16), offset 0..15
PrintLastBase == 255
PrintRow == 16

Opcodes == 0..15

\* the fetch loop stopping one opcode early
FetchOpcodesShort(v) ==
    IF v = "part_001" THEN <<0>> ELSE [i \in 1..15 |-> i - 1]

\* the instruction values setup() programs the fetch cycle for
FetchOpcodes(v) ==
    IF v = "part_001" THEN <<0>> ELSE [i \in 1..16 |-> i - 1]

FetchCalls(v) ==
    [i \in 1..Len(FetchOpcodes(v)) |->
        [instruction |-> FetchOpcodes(v)[i], t_start |-> 0, ops |-> "FETCH"]]

InstructionCalls ==
    << [instruction |-> 0,  t_start |-> 3, ops |-> "LDA"],
       [instruction |-> 1,  t_start |-> 3, ops |-> "ADD"],
       [instruction |-> 2,  t_start |-> 3, ops |-> "SUB"],
       [instruction |-> 14, t_start |-> 3, ops |-> "OUT"],
       [instruction |-> 15, t_start |-> 3, ops |-> "HALT"] >>

\* setup() with the instruction programs written ahead of the fetch cycle
ProgramCallsInstructionsFirst(v) == InstructionCalls \o FetchCalls(v)

\* the writeInstruction calls of setup(), in program order
ProgramCalls(v) == FetchCalls(v) \o InstructionCalls

\* content of the chip before the session: any image; the model tries these
InitialImage(seed) == [i \in 1..ChipSize |-> (seed * (i + 84)) % 256]

\* no call is followed pin by pin
Idle == [kind |-> "idle", address |-> 0, data |-> 0, before |-> 0]

BusIdle ==
    /\ op = Idle
    /\ step = 1
    /\ pin = 0
    /\ dataByte = 0
    /\ mode = <<>>
    /\ port = <<>>
    /\ shiftReg = 0
    /\ latched = 0
    /\ settling = FALSE
    /\ done = <<>>

\* the record of a setAddress(a, outputEnable) call
SetCall(a, outputEnable) ==
    <<[address |-> a, outputEnable |-> outputEnable,
       word |-> setAddress(a, outputEnable)]>>

Init ==
    /\ variant \in Variants
    /\ romSelect \in RomSelects(variant)
    /\ \E seed \in 0..MaxImage : mem = InitialImage(seed)
    /\ pc = "erase"
    /\ address = 0
    /\ call = 1
    /\ t = 0
    /\ base = 0
    /\ offset = 0
    /\ tick = 0
    /\ nErase = 0
    /\ eraseMax = -1
    /\ lastEraseTick = 0
    /\ progLog = <<>>
    /\ readSet = {}
    /\ firstReadTick = 0
    /\ dump = <<>>
    /\ calls = {}
    /\ lastSet = <<>>
    /\ BusIdle

\* one iteration of the erase loop: writeEEPROM(address, 0xff)
EraseStep ==
    /\ pc = "erase"
    /\ address <= EraseLast
    /\ mem' = writeEEPROM(mem, address, 255)
    /\ lastSet' = SetCall(address, FALSE)
    /\ tick' = tick + 1
    /\ nErase' = nErase + 1
    /\ eraseMax' = IF address > eraseMax THEN address ELSE eraseMax
    /\ lastEraseTick' = tick + 1
    /\ address' = address + 1
    /\ pc' = IF address + 1 > EraseLast THEN "program" ELSE "erase"
    /\ UNCHANGED <<variant, romSelect, call, t, base, offset, progLog, readSet,
                   firstReadTick, dump, calls>>
    /\ UNCHANGED busVars

\* one iteration of the loop of writeInstruction, in the call setup() is at
ProgramStep ==
    /\ pc = "program"
    /\ call <= Len(ProgramCalls(variant))
    /\ LET c == ProgramCalls(variant)[call]
           a == Address(variant, c.instruction, c.t_start, t)
           d == Ops(variant, romSelect, c.ops)[t + 1]
       IN  /\ mem' = writeEEPROM(mem, a, d)
           /\ lastSet' = SetCall(a, FALSE)
           /\ progLog' = Append(progLog,
                  [instruction |-> c.instruction, t_start |-> c.t_start,
                   t |-> t, address |-> a, data |-> d, tick |-> tick + 1])
    /\ tick' = tick + 1
    /\ t' = IF t + 1 < 3 THEN t + 1 ELSE 0
    /\ call' = IF t + 1 < 3 THEN call ELSE call + 1
    /\ pc' = IF t + 1 >= 3 /\ call + 1 > Len(ProgramCalls(variant))
             THEN "read" ELSE "program"
    /\ UNCHANGED <<variant, romSelect, address, base, offset, nErase, eraseMax,
                   lastEraseTick, readSet, firstReadTick, dump, calls>>
    /\ UNCHANGED busVars

\* one iteration of the inner loop of printContents: readEEPROM(base + offset)
ReadStep ==
    /\ pc = "read"
    /\ base <= PrintLastBase
    /\ dump' = Append(dump, readEEPROM(mem, base + offset))
    /\ lastSet' = SetCall(base + offset, TRUE)
    /\ readSet' = readSet \cup {ReadCell(base + offset)}
    /\ tick' = tick + 1
    /\ firstReadTick' = IF firstReadTick = 0 THEN tick + 1 ELSE firstReadTick
    /\ offset' = IF offset + 1 <= PrintRow - 1 THEN offset + 1 ELSE 0
    /\ base' = IF offset + 1 <= PrintRow - 1 THEN base ELSE base + PrintRow
    /\ pc' = IF offset + 1 > PrintRow - 1 /\ base + PrintRow > PrintLastBase
             THEN "done" ELSE "read"
    /\ UNCHANGED <<variant, romSelect, mem, address, call, t, nErase, eraseMax,
                   lastEraseTick, progLog, calls>>
    /\ UNCHANGED busVars

Next == EraseStep \/ ProgramStep \/ ReadStep

Spec == Init /\ [][Next]_vars

----------------------------------------------------------------------------
(* The address computation of writeInstruction applied to arbitrary opcodes *)

\* no session runs and no chip is attached: only the computation is applied
CodecInit ==
    /\ variant \in Variants
    /\ romSelect = ROM_SELECT
    /\ mem = <<>>
    /\ pc = "codec"
    /\ address = 0
    /\ call = 1
    /\ t = 0
    /\ base = 0
    /\ offset = 0
    /\ tick = 0
    /\ nErase = 0
    /\ eraseMax = -1
    /\ lastEraseTick = 0
    /\ progLog = <<>>
    /\ readSet = {}
    /\ firstReadTick = 0
    /\ dump = <<>>
    /\ calls = {}
    /\ lastSet = <<>>
    /\ BusIdle

\* the addresses writeInstruction(instruction, t_start, ..) computes for
\* t = 0, 1, 2, for one more call
CodecCall ==
    /\ pc = "codec"
    /\ Cardinality(calls) < MaxCalls
    /\ \E instruction \in Opcodes, t_start \in {0, 3} :
          calls' = calls \cup
              {[instruction |-> instruction, t_start |-> t_start,
                addr |-> [tt \in 0..2 |->
                             Address(variant, instruction, t_start, tt)]]}
    /\ UNCHANGED <<variant, romSelect, mem, pc, address, call, t, base, offset,
                   tick, nErase, eraseMax, lastEraseTick, progLog, readSet,
                   firstReadTick, dump, lastSet>>
    /\ UNCHANGED busVars

CodecNext == CodecCall

SpecCodec == CodecInit /\ [][CodecNext]_vars

----------------------------------------------------------------------------
(* writeInstruction called with any byte as instruction *)

\* the values a byte parameter can carry
Bytes == 0..255

WideInit ==
    /\ variant \in Variants
    /\ romSelect = ROM_SELECT
    /\ mem = <<>>
    /\ pc = "wide"
    /\ address = 0
    /\ call = 1
    /\ t = 0
    /\ base = 0
    /\ offset = 0
    /\ tick = 0
    /\ nErase = 0
    /\ eraseMax = -1
    /\ lastEraseTick = 0
    /\ progLog = <<>>
    /\ readSet = {}
    /\ firstReadTick = 0
    /\ dump = <<>>
    /\ calls = {}
    /\ lastSet = <<>>
    /\ BusIdle

\* the addresses writeInstruction(instruction, t_start, ..) passes to
\* writeEEPROM for t = 0, 1, 2, the instruction being any byte
WideCall ==
    /\ pc = "wide"
    /\ Cardinality(calls) < MaxWide
    /\ \E instruction \in Bytes, t_start \in {0, 3} :
          calls' = calls \cup
              {[instruction |-> instruction, t_start |-> t_start,
                addr |-> [tt \in 0..2 |->
                             Address(variant, instruction, t_start, tt)]]}
    /\ UNCHANGED <<variant, romSelect, mem, pc, address, call, t, base, offset,
                   tick, nErase, eraseMax, lastEraseTick, progLog, readSet,
                   firstReadTick, dump, lastSet>>
    /\ UNCHANGED busVars

WideNext == WideCall

SpecWide == WideInit /\ [][WideNext]_vars

----------------------------------------------------------------------------
(* The driver pin by pin: the pin initialisation of setup(), then calls of *)
(* writeEEPROM and readEEPROM, one Arduino library call per step.  The     *)
(* driver functions are the same text in the three sketches.               *)

SHIFT_DATA == 2
SHIFT_CLK == 3
SHIFT_LATCH == 4
EEPROM_D0 == 5
EEPROM_D7 == 12
WRITE_EN == 13

Pins == SHIFT_DATA..WRITE_EN
DataPins == EEPROM_D0..EEPROM_D7

\* addresses and bytes the driver is called with
BusAddresses == {0, 1365, 2047}
BusData == {0, 29, 255}

\* the chip before the first call: erased, or holding an earlier image
ErasedImage == [i \in 1..ChipSize |-> 255]
BusImages == {ErasedImage, InitialImage(1)}

\* the shift registers power up with any content
PowerUpWords == {0, 65535}

\* one library call of a function body: f the call, a and b its arguments
\* (levels: LOW is 0, HIGH is 1)
Do(f, a, b) == [f |-> f, a |-> a, b |-> b]

\* setAddress without the rising edge on SHIFT_LATCH
setAddressBodyNoPulse(outputEnable) ==
    <<Do("shiftOut", "high", outputEnable),
      Do("shiftOut", "low", outputEnable),
      Do("digitalWrite", SHIFT_LATCH, 0),
      Do("digitalWrite", SHIFT_LATCH, 0),
      Do("digitalWrite", SHIFT_LATCH, 0)>>

setAddressBody(outputEnable) ==
    <<Do("shiftOut", "high", outputEnable),
      Do("shiftOut", "low", outputEnable),
      Do("digitalWrite", SHIFT_LATCH, 0),
      Do("digitalWrite", SHIFT_LATCH, 1),
      Do("digitalWrite", SHIFT_LATCH, 0)>>

\* readEEPROM latching the address before the data pins are made inputs
readEEPROMBodyAddressFirst ==
    setAddressBody(TRUE)
    \o <<Do("pinModeLoop", 0, "INPUT"), Do("readLoop", 0, 0)>>

readEEPROMBody ==
    <<Do("pinModeLoop", 0, "INPUT")>>
    \o setAddressBody(TRUE)
    \o <<Do("readLoop", 0, 0)>>

\* writeEEPROM returning without delay(10)
writeEEPROMBodyNoDelay ==
    setAddressBody(FALSE)
    \o <<Do("pinModeLoop", 0, "OUTPUT"),
         Do("writeLoop", 0, 0),
         Do("digitalWrite", WRITE_EN, 0),
         Do("delayMicroseconds", 1, 0),
         Do("digitalWrite", WRITE_EN, 1)>>

writeEEPROMBody ==
    setAddressBody(FALSE)
    \o <<Do("pinModeLoop", 0, "OUTPUT"),
         Do("writeLoop", 0, 0),
         Do("digitalWrite", WRITE_EN, 0),
         Do("delayMicroseconds", 1, 0),
         Do("digitalWrite", WRITE_EN, 1),
         Do("delay", 10, 0)>>

\* setup() configuring WRITE_EN as output before writing it HIGH
setupBodyModeFirst ==
    <<Do("pinMode", SHIFT_DATA, "OUTPUT"),
      Do("pinMode", SHIFT_CLK, "OUTPUT"),
      Do("pinMode", SHIFT_LATCH, "OUTPUT"),
      Do("pinMode", WRITE_EN, "OUTPUT"),
      Do("digitalWrite", WRITE_EN, 1)>>

\* the pin initialisation of setup()
setupBody ==
    <<Do("pinMode", SHIFT_DATA, "OUTPUT"),
      Do("pinMode", SHIFT_CLK, "OUTPUT"),
      Do("pinMode", SHIFT_LATCH, "OUTPUT"),
      Do("digitalWrite", WRITE_EN, 1),
      Do("pinMode", WRITE_EN, "OUTPUT")>>

Body(kind) ==
    CASE kind = "setup" -> setupBody
      [] kind = "write" -> writeEEPROMBody
      [] kind = "read" -> readEEPROMBody

\* the library call the driver is about to make
Cur == Body(op.kind)[step]

Running == pc = "bus" /\ op.kind # "idle"

\* output enable is active low: the top bit of the latched word
ChipDrives == latched < 32768

\* the level the chip puts on the data pin when it drives the bus
ChipOut(p) == (CellValue(mem, Cell(latched)) \div Pow2(p - EEPROM_D0)) % 2

\* digitalRead(p): an output pin reads back its own level, an input pin the
\* level the chip drives; a pin nobody drives reads either level
digitalRead(p) ==
    IF mode[p] = "OUTPUT" THEN {port[p]}
    ELSE IF ChipDrives THEN {ChipOut(p)}
    ELSE {0, 1}

\* the bytes the data pins can present to the chip: pin EEPROM_D0 + i
\* carries bit i where the Arduino drives it
BusBytes ==
    {v \in 0..255 :
        \A p \in DataPins :
            mode[p] = "OUTPUT" => (v \div Pow2(p - EEPROM_D0)) % 2 = port[p]}

\* a byte write that could only clear bits of the cell
ChipWriteClearOnly(m, word, v) ==
    [m EXCEPT ![Cell(word) + 1] = BitAnd(m[Cell(word) + 1], v)]

\* the byte write the chip performs on the rising edge of WRITE_EN: the
\* cell addressed by the latched word takes the byte on the data pins
ChipWrite(m, word, v) == [m EXCEPT ![Cell(word) + 1] = v]

\* data = (data << 1) without the shift
AccumulateNoShift(d, bit) == (d + bit) % 256

\* data = (data << 1) + digitalRead(pin), data a byte
Accumulate(d, bit) == (ShiftLeft(d, 1) + bit) % 256

\* the reset state of the board, setup() about to run
BusInit ==
    /\ variant = "control_rom"
    /\ romSelect = ROM_SELECT
    /\ mem \in BusImages
    /\ pc = "bus"
    /\ address = 0
    /\ call = 1
    /\ t = 0
    /\ base = 0
    /\ offset = 0
    /\ tick = 0
    /\ nErase = 0
    /\ eraseMax = -1
    /\ lastEraseTick = 0
    /\ progLog = <<>>
    /\ readSet = {}
    /\ firstReadTick = 0
    /\ dump = <<>>
    /\ calls = {}
    /\ lastSet = <<>>
    /\ op = [kind |-> "setup", address |-> 0, data |-> 0, before |-> 0]
    /\ step = 1
    /\ pin = 0
    /\ dataByte = 0
    /\ mode = [p \in Pins |-> "INPUT"]
    /\ port = [p \in Pins |-> 0]
    /\ shiftReg \in PowerUpWords
    /\ latched \in PowerUpWords
    /\ settling = FALSE
    /\ done = <<>>

\* the library call made, the driver moves to the next one; after the last
\* one the function returns
Finish(result) ==
    IF step < Len(Body(op.kind))
    THEN /\ step' = step + 1
         /\ op' = op
         /\ done' = done
    ELSE /\ step' = 1
         /\ op' = Idle
         /\ done' = IF op.kind = "setup" THEN done
                    ELSE Append(done, [kind |-> op.kind,
                                       address |-> op.address,
                                       data |-> result,
                                       before |-> op.before])

\* one iteration of a loop over the data pins: it ends at pin last
Iterate(p, next, last, result) ==
    IF p = last
    THEN pin' = 0 /\ Finish(result)
    ELSE pin' = next /\ UNCHANGED <<step, op, done>>

\* the caller invokes writeEEPROM(a, d)
WriteCall ==
    /\ pc = "bus"
    /\ op.kind = "idle"
    /\ Len(done) < MaxOps
    /\ \E a \in BusAddresses, d \in BusData :
          /\ op' = [kind |-> "write", address |-> a, data |-> d,
                    before |-> CellValue(mem, a)]
          /\ dataByte' = d
    /\ UNCHANGED <<step, pin, mode, port, shiftReg, latched, settling, done,
                   mem>>
    /\ UNCHANGED sessionVars

\* the caller invokes readEEPROM(a)
ReadCall ==
    /\ pc = "bus"
    /\ op.kind = "idle"
    /\ Len(done) < MaxOps
    /\ \E a \in BusAddresses :
          op' = [kind |-> "read", address |-> a, data |-> 0,
                 before |-> CellValue(mem, a)]
    /\ dataByte' = 0
    /\ UNCHANGED <<step, pin, mode, port, shiftReg, latched, settling, done,
                   mem>>
    /\ UNCHANGED sessionVars

\* pinMode(pin, mode)
PinMode ==
    /\ Running
    /\ Cur.f = "pinMode"
    /\ mode' = [mode EXCEPT ![Cur.a] = Cur.b]
    /\ Finish(op.data)
    /\ UNCHANGED <<pin, dataByte, port, shiftReg, latched, settling, mem>>
    /\ UNCHANGED sessionVars

\* digitalWrite(pin, level): a rising edge on SHIFT_LATCH copies the shift
\* registers to their outputs, a rising edge on WRITE_EN ends a write pulse
DigitalWrite ==
    /\ Running
    /\ Cur.f = "digitalWrite"
    /\ port' = [port EXCEPT ![Cur.a] = Cur.b]
    /\ LET rising == mode[Cur.a] = "OUTPUT" /\ port[Cur.a] = 0 /\ Cur.b = 1
       IN  /\ latched' = IF Cur.a = SHIFT_LATCH /\ rising
                          THEN shiftReg ELSE latched
           /\ IF Cur.a = WRITE_EN /\ rising /\ ~ChipDrives
              THEN /\ \E v \in BusBytes : mem' = ChipWrite(mem, latched, v)
                   /\ settling' = TRUE
              ELSE UNCHANGED <<mem, settling>>
    /\ Finish(op.data)
    /\ UNCHANGED <<pin, dataByte, mode, shiftReg>>
    /\ UNCHANGED sessionVars

\* shiftOut(SHIFT_DATA, SHIFT_CLK, MSBFIRST, byte) of setAddress: eight
\* more bits enter the shift registers
ShiftOut ==
    /\ Running
    /\ Cur.f = "shiftOut"
    /\ LET value == IF Cur.a = "high"
                    THEN setAddressHigh(op.address, Cur.b)
                    ELSE setAddressLow(op.address)
       IN  shiftReg' = IF mode[SHIFT_DATA] = "OUTPUT" /\ mode[SHIFT_CLK] = "OUTPUT"
                       THEN (shiftReg * 256 + value) % 65536
                       ELSE shiftReg
    /\ Finish(op.data)
    /\ UNCHANGED <<pin, dataByte, mode, port, latched, settling, mem>>
    /\ UNCHANGED sessionVars

\* for (pin = EEPROM_D0; pin <= EEPROM_D7; pin += 1) pinMode(pin, ..)
PinModeLoop ==
    /\ Running
    /\ Cur.f = "pinModeLoop"
    /\ LET p == IF pin = 0 THEN EEPROM_D0 ELSE pin
       IN  /\ mode' = [mode EXCEPT ![p] = Cur.b]
           /\ Iterate(p, p + 1, EEPROM_D7, op.data)
    /\ UNCHANGED <<dataByte, port, shiftReg, latched, settling, mem>>
    /\ UNCHANGED sessionVars

\* for (pin = EEPROM_D0; ..) { digitalWrite(pin, data & 1); data = data >> 1; }
WriteLoop ==
    /\ Running
    /\ Cur.f = "writeLoop"
    /\ LET p == IF pin = 0 THEN EEPROM_D0 ELSE pin
       IN  /\ port' = [port EXCEPT ![p] = BitAnd(dataByte, 1)]
           /\ dataByte' = ShiftRight(dataByte, 1)
           /\ Iterate(p, p + 1, EEPROM_D7, op.data)
    /\ UNCHANGED <<mode, shiftReg, latched, settling, mem>>
    /\ UNCHANGED sessionVars

\* for (pin = EEPROM_D7; pin >= EEPROM_D0; pin -= 1)
\*     data = (data << 1) + digitalRead(pin);   then return data
ReadLoop ==
    /\ Running
    /\ Cur.f = "readLoop"
    /\ LET p == IF pin = 0 THEN EEPROM_D7 ELSE pin
       IN  \E bit \in digitalRead(p) :
              /\ dataByte' = Accumulate(dataByte, bit)
              /\ Iterate(p, p - 1, EEPROM_D0, Accumulate(dataByte, bit))
    /\ UNCHANGED <<mode, port, shiftReg, latched, settling, mem>>
    /\ UNCHANGED sessionVars

\* delayMicroseconds(1): the write pulse is held
DelayMicroseconds ==
    /\ Running
    /\ Cur.f = "delayMicroseconds"
    /\ Finish(op.data)
    /\ UNCHANGED <<pin, dataByte, mode, port, shiftReg, latched, settling, mem>>
    /\ UNCHANGED sessionVars

\* delay(10): the byte write settles
Delay ==
    /\ Running
    /\ Cur.f = "delay"
    /\ settling' = FALSE
    /\ Finish(op.data)
    /\ UNCHANGED <<pin, dataByte, mode, port, shiftReg, latched, mem>>
    /\ UNCHANGED sessionVars

BusNext ==
    \/ WriteCall
    \/ ReadCall
    \/ PinMode
    \/ DigitalWrite
    \/ ShiftOut
    \/ PinModeLoop
    \/ WriteLoop
    \/ ReadLoop
    \/ DelayMicroseconds
    \/ Delay

SpecBus == BusInit /\ [][BusNext]_vars

----------------------------------------------------------------------------
(* Properties *)

\* C1: once setup() has finished, for every writeInstruction call it made
\* and every t in 0..2, reading the address computed for step t returns
\* ops[t], in each of the three sketches.
C1_RoundTrip ==
    pc = "done" =>
        \A j \in 1..Len(progLog) :
            readEEPROM(mem, progLog[j].address) = progLog[j].data

\* C2: in control-rom.ino two different (opcode, time-step) pairs, opcodes
\* 0..15 and time-steps 0..5, never get the same address.
C2_AddressInjective ==
    variant = "control_rom" =>
        \A c1 \in calls, c2 \in calls :
            \A t1 \in 0..2, t2 \in 0..2 :
                (\/ c1.instruction # c2.instruction
                 \/ c1.t_start + t1 # c2.t_start + t2)
                => c1.addr[t1] # c2.addr[t2]

C2_Witness ==
    /\ variant = "control_rom"
    /\ \E c1 \in calls, c2 \in calls :
          /\ c1.instruction = 0 /\ c1.t_start = 3
          /\ c2.instruction = 1 /\ c2.t_start = 0
          /\ c1.addr[2] = 62
          /\ c2.addr[0] = 95

\* C3: in every sketch the addresses of (o, t_start = 3, t) and
\* (o, t_start = 0, t) differ only in bits of the timing field and agree on
\* every bit of the opcode field.
C3_OpcodeFieldStable ==
    \A c1 \in calls, c2 \in calls :
        (/\ c1.instruction = c2.instruction
         /\ c1.t_start = 3
         /\ c2.t_start = 0)
        => \A tt \in 0..2 :
              LET a == c1.addr[tt]
                  b == c2.addr[tt]
              IN  /\ BitAnd(BitXor(a, b), Not16(TimingMask(variant))) = 0
                  /\ BitAnd(a, OpcodeMask(variant)) = BitAnd(b, OpcodeMask(variant))

\* the 6 bit timing field of an address
TimingField(v, a) == BitAnd(a, TimingMask(v)) \div Pow2(TimingShift(v))

\* C4: in control-rom.ino and part_000 the timing field of every computed
\* address, time-steps 0..5, has exactly one 0 bit among its six bits, and
\* different time-steps put the 0 in different positions.
C4_InvertedOneHot ==
    variant \in {"control_rom", "part_000"} =>
        /\ \A c \in calls, tt \in 0..2 :
              PopCount(TimingField(variant, c.addr[tt])) = 5
        /\ \A c1 \in calls, c2 \in calls :
              \A t1 \in 0..2, t2 \in 0..2 :
                  c1.t_start + t1 # c2.t_start + t2
                  => TimingField(variant, c1.addr[t1])
                       # TimingField(variant, c2.addr[t2])

\* C5: every erase write precedes the first programming write, the fetch
\* steps of an opcode are written before its instruction steps, and no
\* read-back read precedes the last programming write.
C5_SessionOrdered ==
    /\ \A j \in 1..Len(progLog) : lastEraseTick < progLog[j].tick
    /\ \A i \in 1..Len(progLog), j \in 1..Len(progLog) :
          (/\ progLog[i].instruction = progLog[j].instruction
           /\ progLog[i].t_start = 0
           /\ progLog[j].t_start = 3)
          => progLog[i].tick < progLog[j].tick
    /\ firstReadTick # 0 =>
          \A j \in 1..Len(progLog) : progLog[j].tick < firstReadTick
    /\ (progLog # <<>> \/ firstReadTick # 0) => pc # "erase"
    /\ firstReadTick # 0 => pc \in {"read", "done"}

C5_Witness ==
    /\ pc = "done"
    /\ nErase > 0
    /\ firstReadTick > 0
    /\ \E i \in 1..Len(progLog), j \in 1..Len(progLog) :
          /\ progLog[i].instruction = progLog[j].instruction
          /\ progLog[i].t_start = 0
          /\ progLog[j].t_start = 3

\* C6: when setup() finishes, printContents has read every address of the
\* chip, and so every address the programming phase wrote.
C6_ReadBackCoversImage ==
    pc = "done" =>
        /\ \A a \in 0..(ChipSize - 1) : a \in readSet
        /\ \A j \in 1..Len(progLog) : WriteCell(progLog[j].address) \in readSet

\* C7 as claimed: in every sketch, after setup(), the cell of
\* (o, t_start = 0, t) holds FETCH[t] for every opcode o in 0..15.
C7_FetchEveryOpcode ==
    pc = "done" =>
        \A o \in Opcodes, tt \in 0..2 :
            readEEPROM(mem, Address(variant, o, 0, tt))
                = FETCH(variant, romSelect)[tt + 1]

\* C7 as amended: that holds in control-rom.ino and part_000; part_001
\* writes the fetch program once, for instruction 0, and there the cells of
\* (o, 0, t) for o in 1..15 still hold 0xFF.
C7_FetchAsProgrammed ==
    pc = "done" =>
        \A o \in Opcodes, tt \in 0..2 :
            readEEPROM(mem, Address(variant, o, 0, tt))
                = IF variant # "part_001" \/ o = 0
                  THEN FETCH(variant, romSelect)[tt + 1]
                  ELSE 255

C7_Witness ==
    /\ pc = "done"
    /\ variant = "control_rom"
    /\ romSelect = 1
    /\ readEEPROM(mem, Address(variant, 15, 0, 0)) = 32

\* addresses the programming phase wrote
Programmed == {WriteCell(progLog[j].address) : j \in 1..Len(progLog)}

\* C8: after the programming pass every address that setup() did not
\* program still holds 0xFF, in particular the addresses of time-steps 3..5
\* of the opcodes 0x3..0xD, which have no instruction program.
C8_UnprogrammedStayErased ==
    pc = "done" =>
        /\ \A a \in 0..(ChipSize - 1) : a \notin Programmed => CellValue(mem, a) = 255
        /\ \A o \in 3..13, tt \in 0..2 :
              readEEPROM(mem, Address(variant, o, 3, tt)) = 255

\* the state in which the erase loop has just ended
EraseEnded == pc = "program" /\ progLog = <<>>

\* C9 as claimed: when the erase loop ends every address below the capacity
\* the layout implies (1024 for 10 address bits, 2048 for 11) holds 0xFF and
\* no address at or above that capacity was written.
C9_EraseLayoutSpace ==
    EraseEnded =>
        /\ \A a \in 0..(Capacity(variant) - 1) : CellValue(mem, a) = 255
        /\ eraseMax < Capacity(variant)

\* C9 as amended: in every sketch, whatever the width of its layout, the
\* erase loop writes 0xFF to each of the 2048 addresses of the chip, once,
\* and to no address outside [0, 2048).
C9_EraseWholeChip ==
    EraseEnded =>
        /\ \A a \in 0..2047 : CellValue(mem, a) = 255
        /\ nErase = 2048
        /\ eraseMax = 2047

C9_Witness ==
    /\ EraseEnded
    /\ variant = "part_000"
    /\ nErase = 2048
    /\ CellValue(mem, 2047) = 255

\* the bank of the scenario: MI is bit 1, RO is bit 3, AI is bit 6
C10_Bank ==
    /\ variant = "control_rom"
    /\ Signals(variant, romSelect).MI = 2
    /\ Signals(variant, romSelect).RO = 8
    /\ Signals(variant, romSelect).AI = 64

\* C10 as claimed: in that bank, after the session, the cell of LDA
\* (opcode 0) at time-step 3 holds 0b00001010 and the cell at time-step 5
\* holds 0.
C10_LdaStepZeroIs0A ==
    (pc = "done" /\ C10_Bank) =>
        /\ readEEPROM(mem, Address(variant, 0, 3, 0)) = 10
        /\ readEEPROM(mem, Address(variant, 0, 3, 2)) = 0

\* C10 as amended: the cell at time-step 3 holds IO | MI = 0b00010010 and
\* the cell at time-step 5 holds 0.
C10_LdaStepZeroIs12 ==
    (pc = "done" /\ C10_Bank) =>
        /\ readEEPROM(mem, Address(variant, 0, 3, 0)) = 18
        /\ readEEPROM(mem, Address(variant, 0, 3, 2)) = 0

C10_Witness ==
    /\ pc = "done"
    /\ C10_Bank
    /\ romSelect = 2
    /\ readEEPROM(mem, Address(variant, 0, 3, 1)) = 72

----------------------------------------------------------------------------
(* Opcode masking, bank isolation, the latched word, single writes *)

\* the three addresses of a recorded call are those of the call made with
\* the instruction masked to its low 4 bits
SameAsMasked(c) ==
    \A tt \in 0..2 :
        c.addr[tt] = Address(variant, BitAnd(c.instruction, 15), c.t_start, tt)

\* C11 (as stated): in every variant, for every instruction byte v and every
\* t_start in {0, 3}, writeInstruction writes the same three addresses as
\* for v & 0x0F
C11_OpcodeMasked == \A c \in calls : SameAsMasked(c)

\* C11 (amended): part_000 masks the instruction to 4 bits, so any byte v
\* gives the addresses of v & 0x0F; control-rom.ino and part_001 use the
\* instruction unmasked, so there the addresses are those of v & 0x0F
\* exactly when v <= 15
C11_MaskOnlyInPart000 ==
    \A c \in calls :
        SameAsMasked(c) <=> (variant = "part_000" \/ c.instruction <= 15)

C11_Witness ==
    /\ variant = "part_000"
    /\ \E c \in calls :
          c.instruction = 30 /\ c.t_start = 3 /\ c.addr[0] = 1006

\* the signals owned by the bank the sketch was built for
Selected(v, rs) == {n \in SignalNames : BankOf(v, n) = rs}

\* every bit set in the byte is the bit of a signal of the selected bank
OnlySelected(v, rs, byte) ==
    \A i \in 0..7 :
        (byte \div Pow2(i)) % 2 = 1
            => \E n \in Selected(v, rs) : Signals(v, rs)[n] = Pow2(i)

C16_LatchedWord ==
    \A k \in 1..Len(lastSet) :
        LET c == lastSet[k]
        IN  /\ c.address \in 0..(ChipSize - 1)
            /\ c.word \in 0..65535
            /\ c.word % ChipSize = c.address
            /\ (c.word \div ChipSize) % 16 = 0
            /\ c.word \div 32768 = (IF c.outputEnable THEN 0 ELSE 1)
            /\ c.word % 256 = c.address % 256

C16_Witness ==
    /\ pc = "done"
    /\ tick = nErase + Len(progLog) + 256
    /\ lastSet = <<[address |-> 255, outputEnable |-> TRUE, word |-> 255]>>
    /\ eraseMax = 2047

\* C20 (as stated): in every variant, after the erase, no EEPROM address is
\* written more than once by the programming phase
C20_NoAddressTwice ==
    \A i, j \in 1..Len(progLog) :
        i # j => progLog[i].address # progLog[j].address

----------------------------------------------------------------------------
(* The driver pin by pin *)

\* WRITE_EN is an output and drives its line low
WriteEnLow == mode[WRITE_EN] = "OUTPUT" /\ port[WRITE_EN] = 0

\* C13: while a byte write has not settled, the next library call of the
\* driver is the delay(10) of that write, so no shift, latch pulse, data pin
\* mode change, sampling or WRITE_EN pulse comes before the settling delay;
\* WRITE_EN is never low while an earlier write has not settled
C13_SettleBeforeBus ==
    pc = "bus" =>
        /\ settling => (op.kind = "write" /\ Cur.f = "delay")
        /\ WriteEnLow => ~settling

C13_Witness ==
    /\ pc = "bus"
    /\ settling
    /\ Len(done) = 1
    /\ done[1].kind = "write"
    /\ op.kind = "write"

\* C14: WRITE_EN is written HIGH before it is made an output, and it is an
\* output driving low only inside the write pulse of writeEEPROM, between
\* digitalWrite(WRITE_EN, LOW) and digitalWrite(WRITE_EN, HIGH)
C14_WriteEnIdleHigh ==
    pc = "bus" =>
        /\ WriteEnLow =>
              /\ op.kind = "write"
              /\ Cur.f \in {"delayMicroseconds", "digitalWrite"}
              /\ Cur.f = "digitalWrite" => (Cur.a = WRITE_EN /\ Cur.b = 1)
        /\ (op.kind = "setup" /\ Cur.f = "pinMode" /\ Cur.a = WRITE_EN)
              => port[WRITE_EN] = 1

C14_Witness ==
    /\ pc = "bus"
    /\ WriteEnLow
    /\ op.kind = "write"
    /\ Cur.f = "delayMicroseconds"
    /\ Len(done) = 1

RoundTrip ==
    \A k \in 1..(Len(done) - 1) :
        (/\ done[k].kind = "write"
         /\ done[k + 1].kind = "read"
         /\ done[k + 1].address = done[k].address)
            => done[k + 1].data = done[k].data

\* C17: writeEEPROM(a, v) followed by readEEPROM(a) returns v, bit i going
\* out on and coming back from pin EEPROM_D0 + i; a step changes the chip
\* only inside writeEEPROM(a, v), and then only cell a, which takes v
C17_WriteThenRead ==
    [][/\ \/ mem' = mem
          \/ /\ op.kind = "write"
             /\ mem' = [mem EXCEPT ![op.address + 1] = op.data]
       /\ RoundTrip']_vars

C17_Witness ==
    /\ pc = "bus"
    /\ done = <<[kind |-> "write", address |-> 1365, data |-> 29,
                 before |-> 255],
                [kind |-> "read", address |-> 1365, data |-> 29,
                 before |-> 29]>>

\* C18: in every state in which WRITE_EN is driven low, the latched word is
\* the address of the writeEEPROM call with output enable off (top bit 1),
\* SHIFT_LATCH is low, all eight data pins are outputs and pin EEPROM_D0 + i
\* drives bit i of the data byte; this holds for the whole pulse
C18_StableDuringPulse ==
    (pc = "bus" /\ WriteEnLow) =>
        /\ op.kind = "write"
        /\ latched = 32768 + op.address
        /\ Cell(latched) = op.address
        /\ port[SHIFT_LATCH] = 0
        /\ \A p \in DataPins :
              /\ mode[p] = "OUTPUT"
              /\ port[p] = (op.data \div Pow2(p - EEPROM_D0)) % 2

C18_Witness ==
    /\ pc = "bus"
    /\ WriteEnLow
    /\ op.kind = "write"
    /\ op.address = 1365
    /\ op.data = 29
    /\ Cur.f = "digitalWrite"

\* C19: in no state of any sequence of readEEPROM and writeEEPROM calls is a
\* data pin an output while the latched word asserts output enable
C19_NoContention ==
    pc = "bus" =>
        ~(ChipDrives /\ \E p \in DataPins : mode[p] = "OUTPUT")

C19_Witness ==
    /\ pc = "bus"
    /\ Len(done) = 1
    /\ done[1].kind = "write"
    /\ op.kind = "read"
    /\ ChipDrives
    /\ \A p \in DataPins : mode[p] = "INPUT"

====
